---- MODULE Spec2Model ----
(***************************************************************************)
(* Ayurvedic Cosmetics API (src/main.py): product catalog query, cart and  *)
(* checkout handlers over a document store.                                *)
(*                                                                         *)
(* Units.  Prices and totals are integers in thousandths of the currency   *)
(* unit (24.99 is 24990), so that round(total, 2) is a real operation.     *)
(* Ratings are in tenths (4.7 is 47).                                      *)
(* Strings are TLA+ strings; Optional[...] values are sequences of length  *)
(* at most one (None is <<>>, a supplied value v is <<v>>).                *)
(***************************************************************************)
EXTENDS Integers, Sequences, FiniteSets, TLC

(***************************************************************************)
(* Bounds of the model.                                                    *)
(***************************************************************************)
\* cart items / orders inserted in one run, those of running handlers included
MaxAdds == 2
MaxOrders == 2

Threads == {1, 2}

Range(seq) == {seq[k] : k \in 1..Len(seq)}

None == <<>>
Some(v) == <<v>>
IsNone(o) == o = <<>>
Val(o) == o[1]

(***************************************************************************)
(* Strings: case folding and the "$regex" / "$options": "i" search of the  *)
(* store.  Patterns are literal characters and the metacharacter ".".      *)
(***************************************************************************)
Uppers == "ABCDEFGHIJKLMNOPQRSTUVWXYZ"
Lowers == "abcdefghijklmnopqrstuvwxyz"

Ch(s, k) == SubSeq(s, k, k)

IsIn(c, alphabet) == \E k \in 1..Len(alphabet) : Ch(alphabet, k) = c

Pos(c, alphabet) == CHOOSE k \in 1..Len(alphabet) : Ch(alphabet, k) = c

LowerCh(c) == IF IsIn(c, Uppers) THEN Ch(Lowers, Pos(c, Uppers)) ELSE c

\* code point of a character of the catalog's strings (binary string order)
Code(c) ==
  IF IsIn(c, Uppers) THEN 64 + Pos(c, Uppers)
  ELSE IF IsIn(c, Lowers) THEN 96 + Pos(c, Lowers)
  ELSE IF c = " " THEN 32
  ELSE IF c = "&" THEN 38
  ELSE IF c = "," THEN 44
  ELSE IF c = "-" THEN 45
  ELSE IF c = "." THEN 46
  ELSE 127

RECURSIVE StrLess(_, _)
StrLess(a, b) ==
  IF b = "" THEN FALSE
  ELSE IF a = "" THEN TRUE
  ELSE IF Ch(a, 1) = Ch(b, 1) THEN StrLess(SubSeq(a, 2, Len(a)), SubSeq(b, 2, Len(b)))
  ELSE Code(Ch(a, 1)) < Code(Ch(b, 1))

RECURSIVE Lower(_)
Lower(s) == IF s = "" THEN "" ELSE LowerCh(Ch(s, 1)) \o Lower(SubSeq(s, 2, Len(s)))

RegexChar(p, c) == p = "." \/ LowerCh(p) = LowerCh(c)

RegexAt(pat, s, k) == \A j \in 1..Len(pat) : RegexChar(Ch(pat, j), Ch(s, k + j - 1))

\* {"$regex": pat, "$options": "i"} against a string field
RegexSearch(pat, s) == \E k \in 1..(Len(s) - Len(pat) + 1) : RegexAt(pat, s, k)

(***************************************************************************)
(* Products.                                                               *)
(***************************************************************************)
ProductFields ==
  {"id", "name", "description", "category", "price", "image", "ingredients",
   "rating", "reviews", "stock", "popularity"}

seed_products == <<
  [id |-> 1, name |-> "Sandalwood Glow Serum",
   description |-> "A lightweight serum infused with pure sandalwood and saffron to brighten and calm the skin.",
   category |-> "Face Care", price |-> 24990,
   image |-> "https://images.unsplash.com/photo-1611930022073-b7a4ba5fcccd?q=80&w=1200&auto=format&fit=crop",
   ingredients |-> <<"Sandalwood", "Saffron", "Aloe Vera">>,
   rating |-> 47, reviews |-> 213, stock |-> 42, popularity |-> 940],
  [id |-> 2, name |-> "Turmeric Repair Cream",
   description |-> "Rich moisturizer with turmeric and ashwagandha for overnight repair and glow.",
   category |-> "Face Care", price |-> 19500,
   image |-> "https://images.unsplash.com/photo-1604881991720-f91add269bed?q=80&w=1200&auto=format&fit=crop",
   ingredients |-> <<"Turmeric", "Ashwagandha", "Ghee">>,
   rating |-> 46, reviews |-> 156, stock |-> 30, popularity |-> 780],
  [id |-> 3, name |-> "Neem & Tulsi Cleanser",
   description |-> "Purifying gel cleanser with neem and tulsi to balance oil and clarify pores.",
   category |-> "Face Care", price |-> 12000,
   image |-> "https://images.unsplash.com/photo-1612815154858-60aa4c59eaa0?q=80&w=1200&auto=format&fit=crop",
   ingredients |-> <<"Neem", "Tulsi", "Basil">>,
   rating |-> 44, reviews |-> 98, stock |-> 75, popularity |-> 620],
  [id |-> 4, name |-> "Amla Shine Hair Oil",
   description |-> "Nourishing hair oil with amla and bhringraj for strong, glossy hair.",
   category |-> "Hair Care", price |-> 15990,
   image |-> "https://images.unsplash.com/photo-1608245449230-c0aeee29fc61?q=80&w=1200&auto=format&fit=crop",
   ingredients |-> <<"Amla", "Bhringraj", "Coconut Oil">>,
   rating |-> 45, reviews |-> 321, stock |-> 120, popularity |-> 1100],
  [id |-> 5, name |-> "Rose & Vetiver Body Butter",
   description |-> "Deeply hydrating body butter with shea, rose, and vetiver for satin-soft skin.",
   category |-> "Body Care", price |-> 17250,
   image |-> "https://images.unsplash.com/photo-1619451334792-2506e2a5c1e5?q=80&w=1200&auto=format&fit=crop",
   ingredients |-> <<"Rose", "Vetiver", "Shea Butter">>,
   rating |-> 48, reviews |-> 89, stock |-> 28, popularity |-> 540],
  [id |-> 6, name |-> "Sandal-Turmeric Ubtan",
   description |-> "Traditional Ayurvedic ubtan blend for exfoliation and glow.",
   category |-> "Body Care", price |-> 9990,
   image |-> "https://images.unsplash.com/photo-1516826957135-700dedea698c?q=80&w=1200&auto=format&fit=crop",
   ingredients |-> <<"Sandalwood", "Turmeric", "Gram Flour">>,
   rating |-> 43, reviews |-> 45, stock |-> 64, popularity |-> 430] >>

\* the list built by the fallback branch of list_products
fallback == seed_products

\* a catalog written to the store before this process started
legacy_products == <<
  [_id |-> <<"product", 0>>, id |-> 1, name |-> "Brahmi Hair Tonic",
   description |-> "Cooling scalp tonic.", category |-> "hair care", price |-> 8500,
   image |-> "", ingredients |-> <<"Brahmi">>,
   rating |-> 40, reviews |-> 3, stock |-> 5, popularity |-> 10] >>

(***************************************************************************)
(* The document store (pymongo collections and database.create_document).  *)
(***************************************************************************)
\* mutant of create_document: the document replaces the last one of the collection
create_document_replacing(coll, data, id) ==
  IF coll = <<>> THEN <<("_id" :> id) @@ data>>
  ELSE SubSeq(coll, 1, Len(coll) - 1) \o <<("_id" :> id) @@ data>>

\* create_document(collection_name, data): insert one document, return its id
create_document(coll, data, id) == Append(coll, ("_id" :> id) @@ data)

\* db["product"].find_one({"id": product_id})
FindOneProduct(coll, product_id) ==
  LET hits == SelectSeq(coll, LAMBDA d : d.id = product_id)
  IN  IF hits = <<>> THEN None ELSE Some(Head(hits))

\* mutant of FindCart: the cart_id filter is dropped
FindCart_unfiltered(coll, cart_id) == coll

\* db["cart"].find({"cart_id": cart_id})
FindCart(coll, cart_id) == SelectSeq(coll, LAMBDA d : d.cart_id = cart_id)

\* mutant of DeleteManyCart: delete_one in place of delete_many
DeleteManyCart_one(coll, cart_id) ==
  LET hits == {k \in 1..Len(coll) : coll[k].cart_id = cart_id}
      first == CHOOSE k \in hits : \A j \in hits : k <= j
  IN  IF hits = {} THEN coll ELSE SubSeq(coll, 1, first - 1) \o SubSeq(coll, first + 1, Len(coll))

\* db["cart"].delete_many({"cart_id": cart_id})
DeleteManyCart(coll, cart_id) == SelectSeq(coll, LAMBDA d : d.cart_id # cart_id)

\* round(total, 2); no reachable total lies exactly between two cents
Round2(x) == ((x + 5) \div 10) * 10

(***************************************************************************)
(* list_products: the query built from the request parameters, the sort    *)
(* specification, the store's find/sort and the mapping to Product.        *)
(***************************************************************************)
\* Python truth value of an Optional[str]: None and "" are false
Truthy(o) == ~IsNone(o) /\ Val(o) # ""

\* the query dict of list_products; an absent key is None
BuildQuery(params) ==
  [category    |-> IF Truthy(params.category) THEN params.category ELSE None,
   ingredients |-> IF Truthy(params.ingredient) THEN params.ingredient ELSE None,
   or          |-> IF Truthy(params.q) THEN params.q ELSE None,
   price       |-> IF ~IsNone(params.min_price) \/ ~IsNone(params.max_price)
                   THEN Some([gte |-> params.min_price, lte |-> params.max_price])
                   ELSE None]

\* the store's evaluation of that query on one document
Matches(doc, query) ==
  /\ IsNone(query.category) \/ doc.category = Val(query.category)
  /\ \/ IsNone(query.ingredients)
     \/ \E k \in 1..Len(doc.ingredients) : RegexSearch(Val(query.ingredients), doc.ingredients[k])
  /\ \/ IsNone(query.or)
     \/ RegexSearch(Val(query.or), doc.name)
     \/ RegexSearch(Val(query.or), doc.description)
  /\ \/ IsNone(query.price)
     \/ /\ IsNone(Val(query.price).gte) \/ doc.price >= Val(Val(query.price).gte)
        /\ IsNone(Val(query.price).lte) \/ doc.price <= Val(Val(query.price).lte)

\* sort_spec of list_products: None, or <<field, direction>>
SortSpec(sort) ==
  IF sort = Some("price_asc") THEN Some(<<"price", 1>>)
  ELSE IF sort = Some("price_desc") THEN Some(<<"price", -1>>)
  ELSE IF sort = Some("name_asc") THEN Some(<<"name", 1>>)
  ELSE IF sort = Some("name_desc") THEN Some(<<"name", -1>>)
  ELSE IF sort = Some("popularity") THEN Some(<<"popularity", -1>>)
  ELSE IF sort = Some("rating") THEN Some(<<"rating", -1>>)
  ELSE None

\* a sorts strictly before b under the sort specification
Before(spec, a, b) ==
  LET less(x, y) == IF spec[1] = "name" THEN StrLess(x.name, y.name)
                    ELSE x[spec[1]] < y[spec[1]]
  IN  IF spec[2] = 1 THEN less(a, b) ELSE less(b, a)

RECURSIVE InsertSorted(_, _, _)
InsertSorted(spec, sorted, d) ==
  IF sorted = <<>> THEN <<d>>
  ELSE IF Before(spec, d, Head(sorted)) THEN <<d>> \o sorted
  ELSE <<Head(sorted)>> \o InsertSorted(spec, Tail(sorted), d)

\* cursor.sort(sort_spec); documents with equal keys keep their order
RECURSIVE CursorSort(_, _)
CursorSort(spec, docs) ==
  IF docs = <<>> THEN <<>>
  ELSE InsertSorted(spec, CursorSort(spec, SubSeq(docs, 1, Len(docs) - 1)), docs[Len(docs)])

\* Product(id=doc.get("id"), ...): the document without its _id
ToProduct(doc) == [f \in ProductFields |-> doc[f]]

mapped(results) == [k \in 1..Len(results) |-> ToProduct(results[k])]

\* the store branch of list_products
ListFromStore(coll, params) ==
  LET query     == BuildQuery(params)
      sort_spec == SortSpec(params.sort)
      found     == SelectSeq(coll, LAMBDA d : Matches(d, query))
      results   == IF IsNone(sort_spec) THEN found ELSE CursorSort(Val(sort_spec), found)
  IN  mapped(results)

\* the fallback branch of list_products
ListFromFallback(params) == fallback

list_products(isDb, coll, params) ==
  IF isDb THEN ListFromStore(coll, params) ELSE ListFromFallback(params)

(***************************************************************************)
(* State.                                                                  *)
(***************************************************************************)
VARIABLES
  db,        \* TRUE iff database.db is not None (a store is configured)
  phase,     \* "startup" until on_startup has run, then "serving"
  product,   \* db["product"], in natural (insertion) order
  cart,      \* db["cart"]
  order,     \* db["order"]
  inserted,  \* documents inserted so far per collection (source of fresh _id)
  frame,     \* per worker thread: the handler it runs and that handler's locals
  response,  \* the response sent by the last step (NoResponse if it sent none, StartupDone after startup)
  stale,     \* history: threads in the price loop of a handler during which db["product"] was written
  consumed,  \* history: cart ids checked out successfully with no add since
  raced      \* history: adds running when a checkout of their cart_id cleared the cart, and the items they then inserted

vars == <<db, phase, product, cart, order, inserted, frame, response, stale, consumed, raced>>

store == <<product, cart, order>>

(***************************************************************************)
(* Request inputs.                                                         *)
(***************************************************************************)
CartIds == {"A", "B"}
AdminPrices == {9998}
AdminTargets == {2}
\* sets of seed documents whose insert fails during seeding
SeedFailures == {{}, {2}, {1, 2, 3, 4, 5, 6}}

\* request bodies; product 9 is in no catalog
AddToCartRequest ==
  {[cart_id |-> "A", product_id |-> 1, qty |-> 2],
   [cart_id |-> "A", product_id |-> 2, qty |-> 1],
   [cart_id |-> "A", product_id |-> 2, qty |-> 0],
   [cart_id |-> "A", product_id |-> 9, qty |-> 1],
   [cart_id |-> "B", product_id |-> 1, qty |-> -1]}

CheckoutRequest ==
  {[cart_id |-> "A", email |-> Some("u@example.com")],
   [cart_id |-> "B", email |-> None]}

NoParams ==
  [category |-> None, ingredient |-> None, q |-> None,
   min_price |-> None, max_price |-> None, sort |-> None]

Idle ==
  [op |-> "idle", pc |-> "done", body |-> <<>>, items |-> <<>>, idx |-> 0,
   total |-> 0, detailed |-> <<>>, order_id |-> None]

NoResponse == [op |-> "idle", body |-> <<>>, status |-> 0, content |-> <<>>]

\* the outcome of a step that completes the startup: no response, the process now serves
StartupDone == [op |-> "startup", body |-> <<>>, status |-> 0, content |-> <<>>]

\* a request is taken by the first worker thread that is free
Free(t) ==
  /\ phase = "serving"
  /\ frame[t].pc = "done"
  /\ \A u \in Threads : frame[u].pc = "done" => t <= u

InFlight(op) == Cardinality({t \in Threads : frame[t].op = op})

\* the handler of thread t returns (or raises): its locals are gone
Respond(t, op, body, status, content) ==
  /\ frame' = [frame EXCEPT ![t] = Idle]
  /\ response' = [op |-> op, body |-> body, status |-> status, content |-> content]
  /\ stale' = stale \ {t}

Init ==
  /\ db \in BOOLEAN
  /\ phase = "startup"
  /\ product \in (IF db THEN {<<>>, legacy_products} ELSE {<<>>})
  /\ cart = <<>>
  /\ order = <<>>
  /\ inserted = [product |-> 0, cart |-> 0, order |-> 0]
  /\ frame = [t \in Threads |-> Idle]
  /\ response = NoResponse
  /\ stale = {}
  /\ consumed = {}
  /\ raced = [adds |-> {}, items |-> {}]

(***************************************************************************)
(* Startup: ensure_seed_data.                                              *)
(***************************************************************************)
RECURSIVE SeedFrom(_, _, _, _)
\* for doc in seed_products[k..]: try create_document("product", doc) except: pass
SeedFrom(coll, n, k, failing) ==
  IF k > Len(seed_products) THEN [coll |-> coll, n |-> n]
  ELSE IF k \in failing THEN SeedFrom(coll, n, k + 1, failing)
  ELSE SeedFrom(create_document(coll, seed_products[k], <<"product", n + 1>>),
                n + 1, k + 1, failing)

\* mutant of ensure_seed_data: the test for existing products is dropped
ensure_seed_data_unguarded(failing) ==
  IF ~db THEN UNCHANGED <<product, inserted>>
  ELSE LET r == SeedFrom(product, inserted.product, 1, failing)
       IN  /\ product' = r.coll
           /\ inserted' = [inserted EXCEPT !.product = r.n]

ensure_seed_data(failing) ==
  IF ~db THEN UNCHANGED <<product, inserted>>
  ELSE IF product # <<>> THEN UNCHANGED <<product, inserted>>
  ELSE LET r == SeedFrom(product, inserted.product, 1, failing)
       IN  /\ product' = r.coll
           /\ inserted' = [inserted EXCEPT !.product = r.n]

on_startup ==
  /\ phase = "startup"
  /\ \E failing \in SeedFailures : ensure_seed_data(failing)
  /\ phase' = "serving"
  /\ response' = StartupDone
  /\ UNCHANGED <<db, cart, order, frame, stale, consumed, raced>>

\* the process is stopped once its requests are answered and started again
\* against the same store
restart ==
  /\ phase = "serving"
  /\ \A t \in Threads : frame[t].pc = "done"
  /\ phase' = "startup"
  /\ response' = NoResponse
  /\ UNCHANGED <<db, product, cart, order, inserted, frame, stale, consumed, raced>>

(***************************************************************************)
(* Cart Manager: start_cart, add_to_cart, get_cart.                        *)
(***************************************************************************)
start_cart(t) ==
  /\ Free(t)
  /\ \E cart_id \in CartIds : Respond(t, "start", <<>>, 200, [cart_id |-> cart_id])
  /\ UNCHANGED <<raced, db, phase, product, cart, order, inserted, consumed>>

\* mutant of ClampQty: the quantity is stored as sent
ClampQty_unclamped(qty) == qty

\* int(max(1, body.qty))
ClampQty(qty) == IF qty > 1 THEN qty ELSE 1

\* mutant of add_to_cart_find: the product is not validated
add_to_cart_find_unvalidated(t) ==
  /\ Free(t)
  /\ inserted.cart + InFlight("add") < MaxAdds
  /\ \E body \in AddToCartRequest :
       IF ~db
       THEN /\ Respond(t, "add", body, 200, [ok |-> TRUE, cart_id |-> body.cart_id])
            /\ consumed' = consumed \ {body.cart_id}
       ELSE /\ frame' = [frame EXCEPT ![t] = [Idle EXCEPT !.op = "add", !.pc = "insert", !.body = body]]
            /\ response' = NoResponse /\ UNCHANGED <<stale, consumed>>
  /\ UNCHANGED <<raced, db, phase, product, cart, order, inserted>>

\* add_to_cart up to and including the product lookup
add_to_cart_find(t) ==
  /\ Free(t)
  /\ inserted.cart + InFlight("add") < MaxAdds
  /\ \E body \in AddToCartRequest :
       IF ~db
       THEN /\ Respond(t, "add", body, 200, [ok |-> TRUE, cart_id |-> body.cart_id])
            /\ consumed' = consumed \ {body.cart_id}
       ELSE IF IsNone(FindOneProduct(product, body.product_id))
       THEN /\ Respond(t, "add", body, 404, [detail |-> "Product not found"])
            /\ UNCHANGED consumed
       ELSE /\ frame' = [frame EXCEPT ![t] = [Idle EXCEPT !.op = "add", !.pc = "insert", !.body = body]]
            /\ response' = NoResponse /\ UNCHANGED <<stale, consumed>>
  /\ UNCHANGED <<raced, db, phase, product, cart, order, inserted>>

\* create_document("cart", {...}) and the return of add_to_cart
add_to_cart_create(t) ==
  /\ frame[t].op = "add" /\ frame[t].pc = "insert"
  /\ LET body == frame[t].body
     IN  /\ cart' = create_document(cart,
                      [cart_id |-> body.cart_id, product_id |-> body.product_id,
                       qty |-> ClampQty(body.qty)],
                      <<"cart", inserted.cart + 1>>)
         /\ inserted' = [inserted EXCEPT !.cart = @ + 1]
         /\ Respond(t, "add", body, 200, [ok |-> TRUE, cart_id |-> body.cart_id])
         /\ consumed' = consumed \ {body.cart_id}
         /\ raced' = [adds  |-> raced.adds \ {t},
                      items |-> raced.items \cup
                                (IF t \in raced.adds THEN {<<"cart", inserted.cart + 1>>} ELSE {})]
  /\ UNCHANGED <<db, phase, product, order>>

\* create_document("cart", {...}) raises: the exception leaves add_to_cart
add_to_cart_raise(t) ==
  /\ frame[t].op = "add" /\ frame[t].pc = "insert"
  /\ Respond(t, "add", frame[t].body, 500, [detail |-> "Internal Server Error"])
  /\ raced' = [raced EXCEPT !.adds = @ \ {t}]
  /\ UNCHANGED <<db, phase, product, cart, order, inserted, consumed>>

\* mutant of LoopTotal: the quantity is left out of the line amount
LoopTotal_unit(total, it, prod) ==
  IF IsNone(prod) THEN total ELSE total + Val(prod).price

\* one pass of "for it in items" in get_cart and checkout: the new total
LoopTotal(total, it, prod) ==
  IF IsNone(prod) THEN total ELSE total + Val(prod).price * it.qty

\* mutant of LoopDetailed: the line carries quantity 1
LoopDetailed_unit(detailed, it, prod) ==
  IF IsNone(prod) THEN detailed
  ELSE Append(detailed,
         [product_id |-> Val(prod).id, name |-> Val(prod).name, price |-> Val(prod).price,
          qty |-> 1, image |-> Val(prod).image])

\* one pass of "for it in items" in get_cart: the new detailed
LoopDetailed(detailed, it, prod) ==
  IF IsNone(prod) THEN detailed
  ELSE Append(detailed,
         [product_id |-> Val(prod).id, name |-> Val(prod).name, price |-> Val(prod).price,
          qty |-> it.qty, image |-> Val(prod).image])

\* get_cart up to and including the read of the cart's items
get_cart_find(t) ==
  /\ Free(t)
  /\ \E cart_id \in CartIds :
       LET items == IF db THEN FindCart(cart, cart_id) ELSE <<>>
       IN  IF items = <<>>
           THEN Respond(t, "view", [cart_id |-> cart_id], 200,
                        [items |-> <<>>, total |-> Round2(0)])
           ELSE /\ frame' = [frame EXCEPT ![t] =
                              [Idle EXCEPT !.op = "view", !.pc = "loop",
                                           !.body = [cart_id |-> cart_id],
                                           !.items = items, !.idx = 1]]
                /\ response' = NoResponse /\ UNCHANGED stale
  /\ UNCHANGED <<raced, db, phase, product, cart, order, inserted, consumed>>

\* mutant of get_cart_loop: the view adds the price of a line, not price times qty
get_cart_loop_unit(t) ==
  /\ frame[t].op = "view" /\ frame[t].pc = "loop"
  /\ LET f        == frame[t]
         it       == f.items[f.idx]
         prod     == IF db THEN FindOneProduct(product, it.product_id) ELSE None
         total    == LoopTotal_unit(f.total, it, prod)
         detailed == LoopDetailed(f.detailed, it, prod)
     IN  IF f.idx = Len(f.items)
         THEN Respond(t, "view", f.body, 200, [items |-> detailed, total |-> Round2(total)])
         ELSE /\ frame' = [frame EXCEPT ![t].idx = @ + 1, ![t].total = total,
                                        ![t].detailed = detailed]
              /\ response' = NoResponse /\ UNCHANGED stale
  /\ UNCHANGED <<raced, db, phase, product, cart, order, inserted, consumed>>

\* one pass of the loop of get_cart; after the last one, the return
get_cart_loop(t) ==
  /\ frame[t].op = "view" /\ frame[t].pc = "loop"
  /\ LET f        == frame[t]
         it       == f.items[f.idx]
         prod     == IF db THEN FindOneProduct(product, it.product_id) ELSE None
         total    == LoopTotal(f.total, it, prod)
         detailed == LoopDetailed(f.detailed, it, prod)
     IN  IF f.idx = Len(f.items)
         THEN Respond(t, "view", f.body, 200, [items |-> detailed, total |-> Round2(total)])
         ELSE /\ frame' = [frame EXCEPT ![t].idx = @ + 1, ![t].total = total,
                                        ![t].detailed = detailed]
              /\ response' = NoResponse /\ UNCHANGED stale
  /\ UNCHANGED <<raced, db, phase, product, cart, order, inserted, consumed>>

(***************************************************************************)
(* Checkout Engine: checkout.                                              *)
(***************************************************************************)
\* mutant of checkout_find: an empty cart is not rejected
checkout_find_unguarded(t) ==
  /\ Free(t)
  /\ inserted.order + InFlight("checkout") < MaxOrders
  /\ \E body \in CheckoutRequest :
       IF ~db
       THEN /\ Respond(t, "checkout", body, 200,
                       [ok |-> TRUE, status |-> "mock", order_id |-> "uuid4"])
            /\ consumed' = consumed \cup {body.cart_id}
       ELSE LET items == FindCart(cart, body.cart_id)
            IN  /\ frame' = [frame EXCEPT ![t] =
                              [Idle EXCEPT !.op = "checkout",
                                           !.pc = IF items = <<>> THEN "create" ELSE "loop",
                                           !.body = body, !.items = items, !.idx = 1]]
                /\ response' = NoResponse /\ UNCHANGED <<stale, consumed>>
  /\ UNCHANGED <<raced, db, phase, product, cart, order, inserted>>

\* checkout up to and including the read of the cart's items
checkout_find(t) ==
  /\ Free(t)
  /\ inserted.order + InFlight("checkout") < MaxOrders
  /\ \E body \in CheckoutRequest :
       IF ~db
       THEN /\ Respond(t, "checkout", body, 200,
                       [ok |-> TRUE, status |-> "mock", order_id |-> "uuid4"])
            /\ consumed' = consumed \cup {body.cart_id}
       ELSE LET items == FindCart(cart, body.cart_id)
            IN  IF items = <<>>
                THEN /\ Respond(t, "checkout", body, 400, [detail |-> "Cart is empty"])
                     /\ UNCHANGED consumed
                ELSE /\ frame' = [frame EXCEPT ![t] =
                                   [Idle EXCEPT !.op = "checkout", !.pc = "loop", !.body = body,
                                                !.items = items, !.idx = 1]]
                     /\ response' = NoResponse /\ UNCHANGED <<stale, consumed>>
  /\ UNCHANGED <<raced, db, phase, product, cart, order, inserted>>

\* one pass of the loop of checkout
checkout_loop(t) ==
  /\ frame[t].op = "checkout" /\ frame[t].pc = "loop"
  /\ LET f    == frame[t]
         it   == f.items[f.idx]
         prod == FindOneProduct(product, it.product_id)
     IN  frame' = [frame EXCEPT ![t].total = LoopTotal(f.total, it, prod),
                                ![t].idx = @ + 1,
                                ![t].pc = IF f.idx = Len(f.items) THEN "create" ELSE "loop"]
  /\ response' = NoResponse
  /\ UNCHANGED <<raced, db, phase, product, cart, order, inserted, stale, consumed>>

\* mutant of OrderDoc: the items whose product does not resolve are left out
OrderDoc_resolving(body, items, total) ==
  [cart_id |-> body.cart_id,
   items |-> SelectSeq(items, LAMBDA it : ~IsNone(FindOneProduct(product, it.product_id))),
   total |-> Round2(total), email |-> body.email, status |-> "created"]

\* order_doc of checkout
OrderDoc(body, items, total) ==
  [cart_id |-> body.cart_id, items |-> items, total |-> Round2(total),
   email |-> body.email, status |-> "created"]

\* mutant of checkout_create: no order is inserted
checkout_create_skipped(t) ==
  /\ frame[t].op = "checkout" /\ frame[t].pc = "create"
  /\ frame' = [frame EXCEPT ![t].order_id = Some(<<"order", inserted.order + 1>>),
                            ![t].pc = "delete"]
  /\ inserted' = [inserted EXCEPT !.order = @ + 1]
  /\ response' = NoResponse
  /\ UNCHANGED <<raced, db, phase, product, cart, order, stale, consumed>>

\* order_id = create_document("order", order_doc)
checkout_create(t) ==
  /\ frame[t].op = "checkout" /\ frame[t].pc = "create"
  /\ LET f == frame[t]
         order_id == <<"order", inserted.order + 1>>
     IN  /\ order' = create_document(order, OrderDoc(f.body, f.items, f.total), order_id)
         /\ inserted' = [inserted EXCEPT !.order = @ + 1]
         /\ frame' = [frame EXCEPT ![t].order_id = Some(order_id), ![t].pc = "delete"]
  /\ response' = NoResponse
  /\ UNCHANGED <<raced, db, phase, product, cart, stale, consumed>>

\* mutant of checkout_raise: the cart is cleared although no order was created
checkout_raise_clearing(t) ==
  /\ frame[t].op = "checkout" /\ frame[t].pc = "create"
  /\ cart' = DeleteManyCart(cart, frame[t].body.cart_id)
  /\ Respond(t, "checkout", frame[t].body, 500, [detail |-> "Internal Server Error"])
  /\ UNCHANGED <<raced, db, phase, product, order, inserted, consumed>>

\* create_document("order", order_doc) raises: the exception leaves checkout
checkout_raise(t) ==
  /\ frame[t].op = "checkout" /\ frame[t].pc = "create"
  /\ Respond(t, "checkout", frame[t].body, 500, [detail |-> "Internal Server Error"])
  /\ UNCHANGED <<raced, db, phase, product, cart, order, inserted, consumed>>

\* the threads between the product lookup and the insert of an add to cart_id
AddsOn(cart_id) ==
  {u \in Threads : frame[u].op = "add" /\ frame[u].pc = "insert" /\ frame[u].body.cart_id = cart_id}

\* db["cart"].delete_many({"cart_id": body.cart_id}) and the return of checkout
checkout_delete(t) ==
  /\ frame[t].op = "checkout" /\ frame[t].pc = "delete"
  /\ cart' = DeleteManyCart(cart, frame[t].body.cart_id)
  /\ Respond(t, "checkout", frame[t].body, 200,
             [ok |-> TRUE, order_id |-> Val(frame[t].order_id)])
  /\ consumed' = consumed \cup {frame[t].body.cart_id}
  /\ raced' = [adds  |-> raced.adds \cup AddsOn(frame[t].body.cart_id),
               items |-> {id \in raced.items : \E d \in Range(cart') : d._id = id}]
  /\ UNCHANGED <<db, phase, product, order, inserted>>

(***************************************************************************)
(* Query Engine handler.                                                   *)
(***************************************************************************)
list_products_call(t, inputs) ==
  /\ Free(t)
  /\ \E params \in inputs :
       Respond(t, "list", params, 200, list_products(db, product, params))
  /\ UNCHANGED <<raced, db, phase, product, cart, order, inserted, consumed>>

(***************************************************************************)
(* Product lookup: get_product.                                            *)
(***************************************************************************)
\* path parameters of the lookup; product 9 is in no catalog
LookupIds == {2, 9}

\* list_products() called as a plain function: every parameter is its
\* default, a Query(None) object, not None.  With a store the branch tests
\* "if category:", "if ingredient:", "if q:" on objects that are true and
\* "min_price is not None" on an object that is not None, so the query dict
\* holds Query objects and list(db["product"].find(query)) raises when the
\* driver encodes it.  With no store the fallback list is returned.
list_products_defaults ==
  IF db THEN [raised |-> TRUE, list |-> <<>>]
  ELSE [raised |-> FALSE, list |-> ListFromFallback(NoParams)]

\* for p in list: if p.id == product_id: return p
FirstWithId(list, product_id) ==
  LET hits == SelectSeq(list, LAMBDA p : p.id = product_id)
  IN  IF hits = <<>> THEN None ELSE Some(Head(hits))

get_product(t) ==
  /\ Free(t)
  /\ \E product_id \in LookupIds :
       LET body == [product_id |-> product_id]
           doc  == IF db THEN FindOneProduct(product, product_id) ELSE None
           all  == list_products_defaults
           p    == FirstWithId(all.list, product_id)
       IN  IF ~IsNone(doc) THEN Respond(t, "lookup", body, 200, ToProduct(Val(doc)))
           ELSE IF all.raised
           THEN Respond(t, "lookup", body, 500, [detail |-> "Internal Server Error"])
           ELSE IF ~IsNone(p) THEN Respond(t, "lookup", body, 200, Val(p))
           ELSE Respond(t, "lookup", body, 404, [detail |-> "Product not found"])
  /\ UNCHANGED <<raced, db, phase, product, cart, order, inserted, consumed>>

(***************************************************************************)
(* The store's other writers: a product's price is changed, or a product   *)
(* is removed, from outside this service.                                  *)
(***************************************************************************)
\* threads between the read of a cart's items and the use of the total computed from them
InPriceLoop == {t \in Threads : frame[t].pc \in {"loop", "create"} }

admin_set_price ==
  /\ db /\ phase = "serving"
  /\ \E id \in AdminTargets, price \in AdminPrices :
       /\ \E k \in 1..Len(product) : product[k].id = id /\ product[k].price # price
       /\ product' = [k \in 1..Len(product) |->
                        IF product[k].id = id THEN [product[k] EXCEPT !.price = price]
                        ELSE product[k]]
  /\ stale' = stale \cup InPriceLoop
  /\ response' = NoResponse
  /\ UNCHANGED <<raced, db, phase, cart, order, inserted, frame, consumed>>

admin_delete ==
  /\ db /\ phase = "serving"
  /\ \E id \in AdminTargets :
       /\ \E k \in 1..Len(product) : product[k].id = id
       /\ product' = SelectSeq(product, LAMBDA d : d.id # id)
  /\ stale' = stale \cup InPriceLoop
  /\ response' = NoResponse
  /\ UNCHANGED <<raced, db, phase, cart, order, inserted, frame, consumed>>

(***************************************************************************)
(* Specification of the service: its handlers, two requests at a time.     *)
(***************************************************************************)
FewParams ==
  {NoParams, [NoParams EXCEPT !.category = Some("Face Care"), !.sort = Some("price_asc")]}

\* the handlers that write to the store
NextWrite ==
  \/ on_startup
  \/ restart
  \/ \E t \in Threads : add_to_cart_find(t)
  \/ \E t \in Threads : add_to_cart_create(t)
  \/ \E t \in Threads : add_to_cart_raise(t)
  \/ \E t \in Threads : checkout_find(t)
  \/ \E t \in Threads : checkout_loop(t)
  \/ \E t \in Threads : checkout_create(t)
  \/ \E t \in Threads : checkout_raise(t)
  \/ \E t \in Threads : checkout_delete(t)

\* the handlers that only read
NextRead ==
  \/ \E t \in Threads : start_cart(t)
  \/ \E t \in Threads : get_cart_find(t)
  \/ \E t \in Threads : get_cart_loop(t)
  \/ \E t \in Threads : list_products_call(t, FewParams)
  \/ \E t \in Threads : get_product(t)

Next == NextWrite \/ NextRead

Spec == Init /\ [][Next]_vars

(***************************************************************************)
(* Specification of the writing handlers next to the store's other         *)
(* writers.                                                                *)
(***************************************************************************)
NextLive == NextWrite \/ admin_set_price \/ admin_delete

SpecLive == Init /\ [][NextLive]_vars

(***************************************************************************)
(* Specification of add and view next to the store's other writers.        *)
(***************************************************************************)
NextView ==
  \/ on_startup
  \/ restart
  \/ \E t \in Threads : add_to_cart_find(t)
  \/ \E t \in Threads : add_to_cart_create(t)
  \/ \E t \in Threads : add_to_cart_raise(t)
  \/ \E t \in Threads : get_cart_find(t)
  \/ \E t \in Threads : get_cart_loop(t)
  \/ admin_set_price
  \/ admin_delete

SpecView == Init /\ [][NextView]_vars

(***************************************************************************)
(* Specification of the Query Engine alone: after startup, one call of     *)
(* list_products with parameters drawn from AllParams.                     *)
(***************************************************************************)
AllParams ==
  [category   : {None, Some("Face Care"), Some("face care"), Some("Hair Care")},
   ingredient : {None, Some("sandal"), Some("s.ff")},
   q          : {None, Some(""), Some("GLOW")},
   min_price  : {None, Some(0), Some(12000)},
   max_price  : {None, Some(19500)},
   sort       : {None, Some("price_asc"), Some("price_desc"), Some("name_asc"),
                 Some("name_desc"), Some("popularity"), Some("rating"), Some("newest")}]

NextCatalog ==
  \/ on_startup
  \/ response = StartupDone /\ \E t \in Threads : list_products_call(t, AllParams)

SpecCatalog == Init /\ [][NextCatalog]_vars

(***************************************************************************)
(* Vocabulary of the properties.                                           *)
(***************************************************************************)
\* this step enters handler op with request body (it may answer at once)
Started(op, body) ==
  \/ \E t \in Threads : frame[t].pc = "done" /\ frame'[t].op = op /\ frame'[t].body = body
  \/ frame' = frame /\ response'.op = op /\ response'.body = body

\* the cart item without its store id
ItemKey(d) == [cart_id |-> d.cart_id, product_id |-> d.product_id, qty |-> d.qty]

ItemKeys(items) == [k \in 1..Len(items) |-> ItemKey(items[k])]

Resolving(coll, product_id) == {d \in Range(coll) : d.id = product_id}

PriceOf(coll, product_id) == (CHOOSE d \in Resolving(coll, product_id) : TRUE).price

\* sum of price x qty over the items whose product resolves in coll
RECURSIVE SumPriceQty(_, _)
SumPriceQty(items, coll) ==
  IF items = <<>> THEN 0
  ELSE (IF Resolving(coll, Head(items).product_id) = {} THEN 0
        ELSE PriceOf(coll, Head(items).product_id) * Head(items).qty)
       + SumPriceQty(Tail(items), coll)

\* the amount with two decimals nearest to x
NearestCent(x) == CHOOSE r \in (x - 4)..(x + 4) : r % 10 = 0

ScenarioItems ==
  <<[cart_id |-> "A", product_id |-> 1, qty |-> 2],
    [cart_id |-> "A", product_id |-> 2, qty |-> 1]>>

OrdersOf(coll, cart_id) == {k \in 1..Len(coll) : coll[k].cart_id = cart_id}

(***************************************************************************)
(* C1.  The total of the Order a checkout creates is the sum, over the     *)
(* cart items that checkout read whose product resolves, of the product's  *)
(* current price times the item's quantity, rounded to two decimals        *)
(* (checked for every checkout during which the product collection was not *)
(* written); with products 1 at 24.99 and 2 at 19.5, add(A,1,2),           *)
(* add(A,2,1), checkout(A) records 69.48.                                  *)
(***************************************************************************)
C1_OrderTotalFromCurrentPrices ==
  [][\A t \in Threads :
       (/\ frame[t].op = "checkout" /\ frame[t].pc = "create"
        /\ frame'[t].pc = "delete"
        /\ t \notin stale)
       => LET o == order'[Len(order')]
          IN  /\ Len(order') = Len(order) + 1
              /\ o.total = NearestCent(SumPriceQty(frame[t].items, product))
              /\ (/\ ItemKeys(frame[t].items) = ScenarioItems
                  /\ \E d \in Resolving(product, 1) : d.price = 24990
                  /\ \E d \in Resolving(product, 2) : d.price = 19500) => o.total = 69480]_vars

\* the scenario's checkout has answered and its order records 69.48
C1_Witness ==
  /\ \E k \in 1..Len(order) :
       ItemKeys(order[k].items) = ScenarioItems /\ order[k].total = 69480
  /\ response.op = "checkout" /\ response.status = 200

(***************************************************************************)
(* C2.  With a store configured, checkout of a cart_id that has no cart    *)
(* items answers 400 "Cart is empty", creates no order and leaves the      *)
(* product, cart and order collections unchanged; with no store configured *)
(* it answers ok with status "mock" and creates no order either.           *)
(***************************************************************************)
C2_EmptyCartCheckout ==
  [][\A body \in CheckoutRequest :
       (Started("checkout", body) /\ FindCart(cart, body.cart_id) = <<>>)
       => /\ store' = store
          /\ response'.op = "checkout" /\ response'.body = body
          /\ IF db THEN /\ response'.status = 400
                        /\ response'.content = [detail |-> "Cart is empty"]
                   ELSE /\ response'.status = 200
                        /\ response'.content.status = "mock"]_vars

C2_Witness ==
  /\ db
  /\ response.op = "checkout" /\ response.status = 400
  /\ order # <<>>

\* C2 as stated: checkout of a cart_id without items always answers 400
C2_Original ==
  [][\A body \in CheckoutRequest :
       (Started("checkout", body) /\ FindCart(cart, body.cart_id) = <<>>)
       => /\ store' = store
          /\ response'.op = "checkout" /\ response'.body = body
          /\ response'.status = 400
          /\ response'.content = [detail |-> "Cart is empty"]]_vars

(***************************************************************************)
(* C3.  A step removes cart items only if it is the delete of a checkout   *)
(* that has inserted its order, and then only items of that checkout's     *)
(* cart_id; a checkout that answers with an error removes no cart item.    *)
(***************************************************************************)
C3_DeleteOnlyAfterOwnOrder ==
  [][/\ (Range(cart) \ Range(cart') # {}) =>
          \E t \in Threads :
            /\ frame[t].op = "checkout" /\ frame[t].pc = "delete"
            /\ frame'[t].pc = "done"
            /\ \E k \in 1..Len(order) :
                 /\ order[k]._id = Val(frame[t].order_id)
                 /\ order[k].cart_id = frame[t].body.cart_id
            /\ \A d \in Range(cart) \ Range(cart') : d.cart_id = frame[t].body.cart_id
            /\ response'.op = "checkout" /\ response'.status = 200
     /\ (response'.op = "checkout" /\ response'.status # 200) => cart' = cart]_vars

\* a checkout has removed its cart's items while the other cart keeps its item
C3_Witness ==
  /\ db
  /\ response.op = "checkout" /\ response.status = 200
  /\ \E k \in 1..Len(order) : order[k]._id = response.content.order_id
  /\ cart # <<>>

(***************************************************************************)
(* C4.  With a store configured, once a checkout(cart_id) has completed    *)
(* successfully and no add to cart_id has completed since, the cart        *)
(* collection holds no item of cart_id, and every checkout(cart_id) that   *)
(* starts then answers 400 "Cart is empty" and creates no order.           *)
(***************************************************************************)
C4_ConsumedCartStaysEmpty ==
  [][/\ \A c \in consumed' : db => FindCart(cart', c) = <<>>
     /\ \A body \in CheckoutRequest :
          (db /\ Started("checkout", body) /\ body.cart_id \in consumed)
          => /\ response'.op = "checkout" /\ response'.status = 400
             /\ response'.content = [detail |-> "Cart is empty"]
             /\ order' = order]_vars

\* a second checkout of a consumed cart has been refused
C4_Witness ==
  /\ db
  /\ response.op = "checkout" /\ response.status = 400
  /\ response.body.cart_id \in consumed
  /\ OrdersOf(order, response.body.cart_id) # {}

\* C4 as stated: after a successful checkout and no add since, every further
\* checkout fails with the empty-cart error and the cart_id has one order
C4_Original ==
  [][/\ \A body \in CheckoutRequest :
          (Started("checkout", body) /\ body.cart_id \in consumed)
          => /\ response'.op = "checkout" /\ response'.status = 400
             /\ order' = order
     /\ \A c \in consumed' : Cardinality(OrdersOf(order', c)) = 1]_vars

(***************************************************************************)
(* C5.  After a successful checkout(cart_id) and no add to cart_id since,  *)
(* view(cart_id) returns an empty item list and total 0, and the cart      *)
(* collection holds no item of cart_id.                                    *)
(***************************************************************************)
C5_ViewAfterCheckoutEmpty ==
  [][\A c \in CartIds :
       (Started("view", [cart_id |-> c]) /\ c \in consumed)
       => /\ response'.op = "view" /\ response'.status = 200
          /\ response'.content = [items |-> <<>>, total |-> 0]
          /\ \A d \in Range(cart') : d.cart_id # c]_vars

\* a consumed cart has been viewed while the store holds the other cart's item
C5_Witness ==
  /\ db
  /\ response.op = "view" /\ response.body.cart_id \in consumed
  /\ OrdersOf(order, response.body.cart_id) # {}
  /\ cart # <<>>

(***************************************************************************)
(* C6.  With a store configured, add with a product_id that resolves to no *)
(* product answers 404 and creates no cart item, and a cart item is only   *)
(* inserted by an add whose lookup found its product; with no store        *)
(* configured add stores nothing and answers ok without any lookup.        *)
(***************************************************************************)
C6_AddValidatesProduct ==
  [][/\ \A body \in AddToCartRequest :
          Started("add", body) =>
            IF ~db THEN cart' = cart /\ response'.status = 200
            ELSE IF Resolving(product, body.product_id) = {}
            THEN /\ response'.op = "add" /\ response'.body = body
                 /\ response'.status = 404
                 /\ response'.content = [detail |-> "Product not found"]
                 /\ cart' = cart
            ELSE /\ response' = NoResponse
                 /\ cart' = cart
     /\ (Range(cart') \ Range(cart) # {}) =>
          \E t \in Threads :
            /\ frame[t].op = "add" /\ frame[t].pc = "insert"
            /\ \A d \in Range(cart') \ Range(cart) : d.product_id = frame[t].body.product_id]_vars

\* an add of a product that is not in the store has been refused
C6_Witness ==
  /\ db /\ product # <<>>
  /\ response.op = "add" /\ response.status = 404
  /\ Resolving(product, response.body.product_id) = {}

\* C6 as stated: add of a product_id that resolves to no product always answers 404
C6_Original ==
  [][\A body \in AddToCartRequest :
       (/\ Started("add", body)
        /\ Resolving(IF db THEN product ELSE fallback, body.product_id) = {})
       => /\ response'.op = "add" /\ response'.status = 404
          /\ cart' = cart]_vars

(***************************************************************************)
(* C7.  With a store configured, a successful add appends exactly one cart *)
(* item, with qty max(1, qty), and leaves the existing items as they are;  *)
(* with no store configured a successful add stores nothing.  Every cart   *)
(* item has qty >= 1.                                                      *)
(***************************************************************************)
C7_AddAppendsClamped ==
  [][/\ (response'.op = "add" /\ response'.status = 200) =>
          IF db
          THEN /\ Len(cart') = Len(cart) + 1
               /\ SubSeq(cart', 1, Len(cart)) = cart
               /\ ItemKey(cart'[Len(cart')]) =
                    [cart_id |-> response'.body.cart_id,
                     product_id |-> response'.body.product_id,
                     qty |-> IF response'.body.qty >= 1 THEN response'.body.qty ELSE 1]
          ELSE cart' = cart
     /\ \A d \in Range(cart') : d.qty >= 1]_vars

\* an add with a quantity below 1 has been stored next to an earlier item of that product
C7_Witness ==
  /\ db
  /\ response.op = "add" /\ response.status = 200 /\ response.body.qty < 1
  /\ Len(cart) = 2
  /\ cart[1].product_id = cart[2].product_id /\ cart[1].cart_id = cart[2].cart_id
  /\ cart[2].qty = 1

\* C7 as stated: every successful add appends one cart item with qty max(1, qty)
C7_Original ==
  [][(response'.op = "add" /\ response'.status = 200) =>
       /\ Len(cart') = Len(cart) + 1
       /\ SubSeq(cart', 1, Len(cart)) = cart
       /\ cart'[Len(cart')].qty = IF response'.body.qty >= 1 THEN response'.body.qty ELSE 1]_vars

(***************************************************************************)
(* Vocabulary of the Query Engine's properties: the filters as the         *)
(* specification words them.                                               *)
(***************************************************************************)
\* the products of the active catalog source
Catalog == IF db THEN mapped(product) ELSE fallback

\* the store as seeding fills it when every insert succeeds
SeededStore == SeedFrom(<<>>, 0, 1, {}).coll

Contains(s, sub) == \E k \in 1..(Len(s) - Len(sub) + 1) : SubSeq(s, k, k + Len(sub) - 1) = sub

ContainsFolded(s, sub) == Contains(Lower(s), Lower(sub))

Satisfies(p, params) ==
  /\ IsNone(params.category) \/ Lower(p.category) = Lower(Val(params.category))
  /\ \/ IsNone(params.ingredient)
     \/ \E k \in 1..Len(p.ingredients) : ContainsFolded(p.ingredients[k], Val(params.ingredient))
  /\ \/ IsNone(params.q)
     \/ ContainsFolded(p.name, Val(params.q))
     \/ ContainsFolded(p.description, Val(params.q))
  /\ IsNone(params.min_price) \/ p.price >= Val(params.min_price)
  /\ IsNone(params.max_price) \/ p.price <= Val(params.max_price)

(***************************************************************************)
(* C8.  For all parameters, list_products with a store holding the         *)
(* fallback dataset's products and list_products with no store return the  *)
(* same products in the same order.                                        *)
(***************************************************************************)
C8_Original ==
  (response.op = "list" /\ Catalog = fallback)
  => response.content = list_products(~db, SeededStore, response.body)

(***************************************************************************)
(* C9.  list_products returns exactly the products of the catalog that     *)
(* satisfy every supplied filter, and changes no stored state.             *)
(***************************************************************************)
C9_Original ==
  [][response'.op = "list" =>
       /\ store' = store
       /\ Range(response'.content) = {p \in Range(Catalog) : Satisfies(p, response'.body)}
       /\ Len(response'.content) = Cardinality(Range(response'.content))]_vars

(***************************************************************************)
(* C10.  With only a category supplied, list_products returns exactly the  *)
(* products whose category equals it ignoring letter case.                 *)
(***************************************************************************)
C10_Original ==
  (/\ response.op = "list"
   /\ ~IsNone(response.body.category)
   /\ response.body = [NoParams EXCEPT !.category = response.body.category])
  => Range(response.content) =
       {p \in Range(Catalog) : Lower(p.category) = Lower(Val(response.body.category))}

(***************************************************************************)
(* Vocabulary of the ordering property.                                    *)
(***************************************************************************)
\* product a may stand before product b under the sort value
InOrder(sort, a, b) ==
  IF sort = "price_asc" THEN a.price <= b.price
  ELSE IF sort = "price_desc" THEN a.price >= b.price
  ELSE IF sort = "name_asc" THEN ~StrLess(b.name, a.name)
  ELSE IF sort = "name_desc" THEN ~StrLess(a.name, b.name)
  ELSE IF sort = "popularity" THEN a.popularity >= b.popularity
  ELSE IF sort = "rating" THEN a.rating >= b.rating
  ELSE TRUE

SortKeys == {"price_asc", "price_desc", "name_asc", "name_desc", "popularity", "rating"}

\* position of product p in the sequence of products
IndexIn(seq, p) == CHOOSE k \in 1..Len(seq) : seq[k] = p

\* out lists products of seq in the order they have in seq
KeepsOrder(out, seq) ==
  \A i, j \in 1..Len(out) :
    i < j => /\ out[i] \in Range(seq) /\ out[j] \in Range(seq)
             /\ IndexIn(seq, out[i]) < IndexIn(seq, out[j])

Names(out) == [k \in 1..Len(out) |-> out[k].name]

(***************************************************************************)
(* C11.  The list returned by list_products is ordered by the sort key;    *)
(* for an omitted or any other sort value it keeps the natural order of    *)
(* the catalog; list(category = "Face Care", sort = "price_asc") over the  *)
(* six seed products returns Neem & Tulsi Cleanser, Turmeric Repair Cream, *)
(* Sandalwood Glow Serum.                                                  *)
(***************************************************************************)
C11_Original ==
  response.op = "list" =>
    LET out  == response.content
        sort == response.body.sort
    IN  /\ (~IsNone(sort) /\ Val(sort) \in SortKeys) =>
             \A i, j \in 1..Len(out) : i < j => InOrder(Val(sort), out[i], out[j])
        /\ (IsNone(sort) \/ Val(sort) \notin SortKeys) => KeepsOrder(out, Catalog)
        /\ (/\ Catalog = fallback
            /\ response.body = [NoParams EXCEPT !.category = Some("Face Care"),
                                                !.sort = Some("price_asc")])
           => Names(out) = <<"Neem & Tulsi Cleanser", "Turmeric Repair Cream",
                             "Sandalwood Glow Serum">>

\* C11 restricted to a configured store
C11_StoreOrdered == db => C11_Original

(***************************************************************************)
(* Vocabulary of the view's properties.                                    *)
(***************************************************************************)
\* one line per item whose product resolves in coll, in the items' order
RECURSIVE LinesOf(_, _)
LinesOf(items, coll) ==
  IF items = <<>> THEN <<>>
  ELSE LET it   == Head(items)
           hits == Resolving(coll, it.product_id)
           p    == CHOOSE d \in hits : TRUE
       IN  (IF hits = {} THEN <<>>
            ELSE <<[product_id |-> p.id, name |-> p.name, price |-> p.price,
                    qty |-> it.qty, image |-> p.image]>>)
           \o LinesOf(Tail(items), coll)

RECURSIVE SumLines(_)
SumLines(lines) ==
  IF lines = <<>> THEN 0 ELSE Head(lines).price * Head(lines).qty + SumLines(Tail(lines))

\* this step is taken by a view
ViewStep ==
  \/ response'.op = "view"
  \/ \E t \in Threads : frame'[t] # frame[t] /\ (frame[t].op = "view" \/ frame'[t].op = "view")

(***************************************************************************)
(* C12.  view(cart_id) reads the cart items of cart_id and answers with    *)
(* one line per item whose product resolves, items whose product does not  *)
(* resolve being skipped without an error, and with a total equal to the   *)
(* rounded sum of price times qty over the returned lines (prices current  *)
(* at the answer, checked for every view during which the product          *)
(* collection was not written); no step of a view changes stored state.    *)
(***************************************************************************)
C12_ViewLinesAndTotal ==
  [][/\ \A c \in CartIds :
          Started("view", [cart_id |-> c]) =>
            \/ \E t \in Threads : frame'[t].op = "view" /\ frame'[t].items = FindCart(cart, c)
                                  /\ frame'[t].items # <<>> /\ frame'[t].total = 0
            \/ /\ FindCart(cart, c) = <<>>
               /\ response'.status = 200
               /\ response'.content = [items |-> <<>>, total |-> 0]
     /\ \A t \in Threads :
          (frame[t].op = "view" /\ frame'[t].pc = "done" /\ t \notin stale)
          => /\ response'.op = "view" /\ response'.status = 200
             /\ response'.body = frame[t].body
             /\ response'.content.items = LinesOf(frame[t].items, product)
             /\ response'.content.total = NearestCent(SumLines(response'.content.items))
     /\ \A t \in Threads :
          (frame[t].op = "view" /\ frame'[t].pc = "done")
          => response'.op = "view" /\ response'.status = 200
     /\ ViewStep => store' = store]_vars

\* a view of a cart with two items, one of whose products is gone, has answered one line
C12_Witness ==
  /\ response.op = "view" /\ response.status = 200
  /\ Len(FindCart(cart, response.body.cart_id)) = 2
  /\ Len(response.content.items) = 1
  /\ response.content.items[1].qty = 2
  /\ response.content.total = 49980

(***************************************************************************)
(* C13.  Product lookup by id answers with the product of that id when the *)
(* active catalog source has one, and with 404 "Product not found" for     *)
(* every other id; it answers with no other product and no other error.    *)
(***************************************************************************)
C13_Original ==
  [][\A id \in LookupIds :
       Started("lookup", [product_id |-> id]) =>
         LET hits == {p \in Range(Catalog) : p.id = id}
         IN  /\ response'.op = "lookup"
             /\ IF hits # {}
                THEN response'.status = 200 /\ response'.content \in hits
                ELSE /\ response'.status = 404
                     /\ response'.content = [detail |-> "Product not found"]]_vars

\* C13 restricted to the ids of the active catalog source and to no store
C13_FoundOrMock ==
  [][\A id \in LookupIds :
       (Started("lookup", [product_id |-> id])
        /\ (~db \/ \E p \in Range(Catalog) : p.id = id))
       => LET hits == {p \in Range(Catalog) : p.id = id}
          IN  IF hits # {}
              THEN response'.status = 200 /\ response'.content \in hits
              ELSE response'.status = 404]_vars

(***************************************************************************)
(* C14.  ensure_seed_data inserts products only into an empty product      *)
(* collection: a startup against a store that holds a product, a second    *)
(* startup after a seeding included, leaves the product collection as it   *)
(* is (prices changed and products removed since stay so), and so does a   *)
(* startup with no store; what a seeding inserts are seed products in seed *)
(* order, those whose insert failed left out, and the startup completes;   *)
(* the startup touches neither carts nor orders.                           *)
(***************************************************************************)
C14_SeedingIdempotent ==
  [][/\ phase = "startup" =>
          /\ phase' = "serving" /\ response' = StartupDone
          /\ (~db \/ product # <<>>) => product' = product
          /\ (db /\ product = <<>>) => KeepsOrder(mapped(product'), seed_products)
          /\ cart' = cart /\ order' = order
     /\ Len(product') > Len(product) => phase = "startup" /\ product = <<>>]_vars

\* a later startup has completed against a store seeded with one failed insert
\* and used since
C14_Witness ==
  /\ db /\ response = StartupDone
  /\ Len(product) = Len(seed_products) - 1
  /\ order # <<>>

(***************************************************************************)
(* Vocabulary of the properties of concurrent adds and checkouts.          *)
(***************************************************************************)
ItemIds(items) == {items[k]._id : k \in 1..Len(items)}

\* the ids of the cart items billed by some order
Billed(coll) == UNION {ItemIds(coll[k].items) : k \in 1..Len(coll)}

CheckoutsOn(cart_id) ==
  {t \in Threads : frame[t].op = "checkout" /\ frame[t].body.cart_id = cart_id}

(***************************************************************************)
(* C15.  The race of add and checkout on one cart_id happens: an add whose *)
(* product lookup precedes the clearing of the cart by a checkout of the   *)
(* same cart_id, and whose insert follows it, leaves an item that is in    *)
(* the cart collection after the checkout has completed and in no order,   *)
(* the order of that checkout included.                                    *)
(***************************************************************************)
C15_LateItemUnbilled ==
  [][\A t \in raced.adds :
       (frame[t].op = "add" /\ frame'[t].pc = "done" /\ response'.status = 200)
       => LET d == cart'[Len(cart')]
          IN  /\ Len(cart') = Len(cart) + 1
              /\ d.cart_id = frame[t].body.cart_id
              /\ d._id \in raced'.items
              /\ OrdersOf(order', d.cart_id) # {}
              /\ d._id \notin Billed(order')]_vars

\* the checkout has completed, and the item of the add that ran beside it is in
\* the cart collection and in no order
C15_Witness ==
  \E d \in Range(cart) :
    /\ d._id \in raced.items
    /\ OrdersOf(order, d.cart_id) # {}
    /\ CheckoutsOn(d.cart_id) = {}
    /\ d._id \notin Billed(order)
    /\ response.op = "add" /\ response.status = 200

(***************************************************************************)
(* C16.  The order collection only grows, by one order at a time, and an   *)
(* order once inserted is never changed or removed by any step (add, view, *)
(* list, lookup, start, checkout, startup); an order is inserted only by   *)
(* the create of a checkout, with status "created"; with a store           *)
(* configured a checkout that answers ok has inserted exactly one order,   *)
(* the one whose id it returns; with no store configured a checkout        *)
(* answers ok and no order exists.                                         *)
(***************************************************************************)
C16_OrdersImmutable ==
  [][/\ Len(order') >= Len(order)
     /\ SubSeq(order', 1, Len(order)) = order
     /\ Len(order') # Len(order) =>
          /\ Len(order') = Len(order) + 1
          /\ order'[Len(order')].status = "created"
          /\ \E t \in Threads :
               /\ frame[t].op = "checkout" /\ frame[t].pc = "create"
               /\ frame'[t].order_id = Some(order'[Len(order')]._id)
               /\ order'[Len(order')].cart_id = frame[t].body.cart_id
          /\ \A k \in 1..Len(order) : order[k]._id # order'[Len(order')]._id
     /\ (response'.op = "checkout" /\ response'.status = 200) =>
          IF db
          THEN /\ Cardinality({k \in 1..Len(order') :
                                 order'[k]._id = response'.content.order_id}) = 1
               /\ \A k \in 1..Len(order') :
                    order'[k]._id = response'.content.order_id
                    => /\ order'[k].status = "created"
                       /\ order'[k].cart_id = response'.body.cart_id
          ELSE order' = <<>>]_vars

\* a second checkout has answered ok; the first order is still there
C16_Witness ==
  /\ db
  /\ response.op = "checkout" /\ response.status = 200
  /\ Len(order) = 2
  /\ order[2]._id = response.content.order_id
  /\ order[1]._id # order[2]._id
  /\ order[1].status = "created"

\* C16 as stated: every checkout that answers ok has inserted one order
C16_Original ==
  [][/\ SubSeq(order', 1, Len(order)) = order
     /\ (response'.op = "checkout" /\ response'.status = 200) =>
          Cardinality({k \in 1..Len(order') :
                         /\ order'[k].cart_id = response'.body.cart_id
                         /\ order'[k].status = "created"}) >= 1]_vars

(***************************************************************************)
(* C17.  The order a checkout creates holds the request's cart_id and      *)
(* email, status "created" and, as items, the cart item records the        *)
(* checkout read for cart_id, all of them and in that order, those whose   *)
(* product does not resolve included; such an item adds nothing to the     *)
(* total and does not end the checkout.                                    *)
(***************************************************************************)
C17_OrderSnapshot ==
  [][/\ \A body \in CheckoutRequest :
          (db /\ Started("checkout", body) /\ FindCart(cart, body.cart_id) # <<>>)
          => \E t \in Threads :
               /\ frame[t].pc = "done" /\ frame'[t].op = "checkout" /\ frame'[t].body = body
               /\ frame'[t].items = FindCart(cart, body.cart_id)
               /\ frame'[t].total = 0
     /\ \A t \in Threads :
          (frame[t].op = "checkout" /\ frame[t].pc = "loop" /\ frame'[t] # frame[t])
          => /\ frame'[t].op = "checkout" /\ frame'[t].pc \in {"loop", "create"}
             /\ frame'[t].items = frame[t].items /\ frame'[t].body = frame[t].body
             /\ response' = NoResponse
             /\ Resolving(product, frame[t].items[frame[t].idx].product_id) = {}
                => frame'[t].total = frame[t].total
     /\ \A t \in Threads :
          (frame[t].op = "checkout" /\ frame[t].pc = "create" /\ frame'[t].pc = "delete")
          => LET o == order'[Len(order')]
             IN  /\ Len(order') = Len(order) + 1
                 /\ o.cart_id = frame[t].body.cart_id
                 /\ o.email = frame[t].body.email
                 /\ o.status = "created"
                 /\ o.items = frame[t].items
                 /\ o.total = Round2(frame[t].total)]_vars

\* a checkout has answered ok for an order that holds an item whose product is
\* gone and that bills the other item alone
C17_Witness ==
  /\ response.op = "checkout" /\ response.status = 200
  /\ \E k \in 1..Len(order) :
       /\ order[k]._id = response.content.order_id
       /\ ItemKeys(order[k].items) = ScenarioItems
       /\ Resolving(product, 2) = {}
       /\ order[k].total = 49980
       /\ order[k].email = Some("u@example.com")

\* the ids of the cart items whose add has answered ok: create_document and the
\* return of add_to_cart are one step, and ids are handed out in sequence
Acknowledged == {<<"cart", n>> : n \in 1..inserted.cart}

(***************************************************************************)
(* C18.  Every cart item whose add has answered ok is in the cart          *)
(* collection or among the items of some order.                            *)
(***************************************************************************)
C18_Original ==
  \A id \in Acknowledged : id \in ItemIds(cart) \/ id \in Billed(order)

(***************************************************************************)
(* C19.  No cart item record is among the items of two orders.             *)
(***************************************************************************)
C19_Original ==
  \A j, k \in 1..Len(order) :
    j # k => ItemIds(order[j].items) \cap ItemIds(order[k].items) = {}

(***************************************************************************)
(* C20.  A view and a checkout that read the same cart item records, with  *)
(* no write to the product collection in between, come to the same total:  *)
(* the total a view returns equals the total of every order whose items    *)
(* are the records that view read.                                         *)
(***************************************************************************)
C20_ViewAgreesWithCheckout ==
  [][\A u \in Threads :
       (frame[u].op = "view" /\ frame'[u].pc = "done")
       => /\ response'.op = "view" /\ response'.status = 200
          /\ \A k \in 1..Len(order) :
               order[k].items = frame[u].items
               => response'.content.total = order[k].total]_vars

\* a view that read the scenario's two items beside their checkout has returned
\* the total the order records
C20_Witness ==
  /\ response.op = "view" /\ response.status = 200
  /\ response.content.total = 69480
  /\ Len(response.content.items) = 2
  /\ \E k \in 1..Len(order) :
       /\ order[k].cart_id = response.body.cart_id
       /\ ItemKeys(order[k].items) = ScenarioItems
       /\ order[k].total = response.content.total

====
